---- MODULE Spec2Model ----
(***************************************************************************)
(* A model of the OpenRouter proxy (proxy/app.py): the two Flask routes    *)
(* GET /v1/models and POST /v1/chat/completions, one inbound request at a  *)
(* time (the handlers share no state across requests).                     *)
(*                                                                         *)
(* JSON documents are modelled structurally: an object is the set of its   *)
(* keys plus the sub-objects the handlers look into (usage, choices,       *)
(* choices[].delta, choices[].message, error).  A value that is present    *)
(* but is not an object (null, a string, a number) is "null"/"scalar".     *)
(* An HTTP body is the sequence of its text lines; a JSON body is a body   *)
(* of one line whose text parses.                                          *)
(***************************************************************************)
EXTENDS Integers, Sequences, FiniteSets, TLC

VARIABLES
    pc,             \* position of the handler
    body,           \* request.json of the inbound request
    upstreamCalls,  \* number of requests.get / requests.post calls issued
    upStatus,       \* response.status_code (0: no response)
    upCtype,        \* response.headers['Content-Type'] ("" when absent)
    upLines,        \* lines of the upstream body read so far
    upEnd,          \* "open", "eof" or "error": how the upstream body ended
    cached,         \* response.content already read (response.json() was called)
    cursor,         \* next line of a cached body that generate() will see
    resp,           \* what the caller receives
    sent,           \* the lines of a streamed response sent to the caller
    fault,          \* what went wrong, for the record ("none" when nothing did)
    models,         \* GET /v1/models: openrouter_data["data"]
    env,            \* GET /v1/models: os.environ.get('MODEL_FILTER_FILE')
    disk,           \* GET /v1/models: the filter files on disk
    allowed_models, \* GET /v1/models: the patterns loaded from the filter file
    listed          \* GET /v1/models: openai_models["data"]

vars == <<pc, body, upstreamCalls, upStatus, upCtype, upLines, upEnd, cached,
          cursor, resp, sent, fault, models, env, disk, allowed_models, listed>>

chatVars == <<body, upCtype, upLines, upEnd, cached, cursor, sent>>
modelVars == <<models, env, disk, allowed_models, listed>>

(***************************************************************************)
(* Bounds of the model.                                                    *)
(***************************************************************************)
MaxLines == 2       \* lines of a live upstream stream
MaxModels == 2      \* entries of the upstream model list
MaxFileLines == 2   \* lines of a filter file

(***************************************************************************)
(* JSON documents.                                                         *)
(***************************************************************************)
Denylist == {"provider", "native_finish_reason", "reasoning",
             "reasoning_details", "prompt_tokens_details"}

Absent == [is |-> "absent", keys |-> {}]
Null == [is |-> "null", keys |-> {}]
ObjOf(ks) == [is |-> "obj", keys |-> ks]

NoChoices == [is |-> "absent", items |-> <<>>]
NullChoices == [is |-> "null", items |-> <<>>]
ListOf(cs) == [is |-> "list", items |-> cs]

Choice(ks, d, m, c) == [keys |-> ks, delta |-> d, message |-> m, content |-> c]

\* kind "obj": a JSON object; "scalar": JSON that is no object; "bad": text
\* that is not JSON (a truncated chunk, say), of which only the denylisted
\* field names written in it ("provider": ...) are kept, as mentions.
Doc(ks, u, cs, e, msg) ==
    [kind |-> "obj", top |-> ks, usage |-> u, choices |-> cs, error |-> e,
     message |-> msg, mentions |-> {}]
ScalarDoc ==
    [kind |-> "scalar", top |-> {}, usage |-> Absent, choices |-> NoChoices,
     error |-> Absent, message |-> "", mentions |-> {}]
BadDoc(ms) ==
    [kind |-> "bad", top |-> {}, usage |-> Absent, choices |-> NoChoices,
     error |-> Absent, message |-> "", mentions |-> ms]

\* Every field name that occurs anywhere in a document (or in its raw text).
RECURSIVE ChoiceFields(_)
ChoiceFields(cs) ==
    IF cs = <<>> THEN {}
    ELSE Head(cs).keys \cup Head(cs).delta.keys \cup Head(cs).message.keys
         \cup ChoiceFields(Tail(cs))
FieldsIn(d) ==
    d.top \cup d.usage.keys \cup d.error.keys \cup ChoiceFields(d.choices.items)
    \cup d.mentions

(***************************************************************************)
(* Text lines of an upstream body.                                         *)
(*   form "blank"  the empty line                                          *)
(*        "data"   starts with 'data: ' and not with 'data: [DONE]'        *)
(*        "done"   'data: [DONE]'                                          *)
(*        "other"  anything else; doc is what json.loads makes of the line *)
(*   marker: the text contains ': OPENROUTER PROCESSING'                   *)
(*   fmt: how the JSON text is laid out ("compact" as the upstream writes  *)
(*        it, "dumps" as json.dumps writes it, "raw" when it is no JSON)   *)
(***************************************************************************)
Line(f, fm, mk, d) == [form |-> f, fmt |-> fm, marker |-> mk, doc |-> d]
BlankLine == Line("blank", "raw", FALSE, BadDoc({}))
KeepAliveLine == Line("other", "raw", TRUE, BadDoc({}))
DoneLine == Line("done", "raw", FALSE, BadDoc({}))
DataLine(fm, d) == Line("data", IF d.kind = "bad" THEN "raw" ELSE fm, FALSE, d)
OtherLine(d) == Line("other", IF d.kind = "bad" THEN "raw" ELSE "compact", FALSE, d)

\* response.json(): the body parses when it is one line of JSON text.
ParseJson(lines) ==
    IF Len(lines) = 1 /\ lines[1].form = "other" /\ ~lines[1].marker
    THEN lines[1].doc
    ELSE BadDoc({})

(***************************************************************************)
(* The inputs: request bodies, upstream answers, upstream lines.           *)
(***************************************************************************)
\* request.json: missing or malformed (request.json raises), JSON that is no
\* object (body.get raises), or an object with or without a stream field.
RequestBodies ==
    {[kind |-> "missing", stream |-> "absent"],
     [kind |-> "nonobject", stream |-> "absent"]}
    \cup {[kind |-> "object", stream |-> s] : s \in {"absent", "false", "true"}}

Statuses == {200, 201, 402, 500}
ContentTypes == {"", "text/event-stream", "application/json"}

MessageObjects ==
    {Absent, Null, ObjOf({"content"}), ObjOf({"content", "reasoning"}),
     ObjOf({"content", "reasoning_details"}),
     ObjOf({"content", "reasoning", "reasoning_details"})}
UsageObjects ==
    {Absent, Null, ObjOf({"prompt_tokens"}),
     ObjOf({"prompt_tokens", "prompt_tokens_details"})}
ChoiceKeys == {{"index"}, {"index", "native_finish_reason"}}

\* Bodies of a non-streaming completion.
CompletionChoices ==
    {Choice(ks, Absent, m, "y") : ks \in ChoiceKeys, m \in MessageObjects}
CompletionDocs ==
    {Doc(ks, u, cs, Absent, "") :
        ks \in {{"id"}, {"id", "provider"}},
        u \in UsageObjects,
        cs \in {NoChoices, NullChoices} \cup {ListOf(<<c>>) : c \in CompletionChoices}}

\* Bodies of an upstream error.
ErrorDocs ==
    {Doc({}, Absent, NoChoices, Absent, ""),
     Doc({}, Absent, NoChoices, Null, ""),
     Doc({}, Absent, NoChoices, ObjOf({"code"}), ""),
     Doc({}, Absent, NoChoices, ObjOf({"code", "message"}), "insufficient credit")}

\* Chunks of a stream: a plain chunk, and the chunks that differ from it in
\* one place.
PlainChoice == Choice({"index"}, ObjOf({"content"}), Absent, "y")
PlainChunk == Doc({"id"}, Absent, ListOf(<<PlainChoice>>), Absent, "")
LoadedChoice ==
    Choice({"index", "native_finish_reason"},
           ObjOf({"content", "reasoning", "reasoning_details"}), Absent, "y")
ChunkDocs ==
    {PlainChunk,
     Doc({"id", "provider"}, ObjOf({"prompt_tokens", "prompt_tokens_details"}),
         ListOf(<<LoadedChoice>>), Absent, ""),
     Doc({"id", "provider"}, Absent, ListOf(<<PlainChoice>>), Absent, ""),
     Doc({"id"}, Absent, NoChoices, Absent, ""),
     Doc({"id"}, Absent, NullChoices, Absent, ""),
     Doc({"id"}, Absent, ListOf(<<>>), Absent, ""),
     Doc({"id"}, Absent, ListOf(<<LoadedChoice, PlainChoice>>), Absent, "")}
    \cup {Doc({"id"}, u, ListOf(<<PlainChoice>>), Absent, "") : u \in UsageObjects}
    \cup {Doc({"id"}, Absent, ListOf(<<Choice({"index"}, d, Absent, "y")>>), Absent, "") :
            d \in MessageObjects}
    \cup {Doc({"id"}, Absent,
              ListOf(<<Choice({"index", "native_finish_reason"}, ObjOf({"content"}),
                              Absent, "y")>>), Absent, "")}

StreamLines ==
    {BlankLine, KeepAliveLine, DoneLine,
     Line("data", "compact", TRUE, PlainChunk),
     DataLine("dumps", PlainChunk),
     DataLine("raw", ScalarDoc),
     DataLine("raw", BadDoc({})), DataLine("raw", BadDoc({"provider"})),
     OtherLine(BadDoc({})),
     OtherLine(Doc({"id", "provider"}, Absent, ListOf(<<PlainChoice>>), Absent, ""))}
    \cup {DataLine("compact", d) : d \in ChunkDocs}

\* Whole bodies, as response.json() or a non-streaming requests.post reads them.
Bodies ==
    {<<OtherLine(d)>> : d \in CompletionDocs \cup ErrorDocs
                               \cup {ScalarDoc, BadDoc({}), BadDoc({"reasoning"})}}
    \cup {<<>>, <<DataLine("compact", PlainChunk), DoneLine>>}

(***************************************************************************)
(* POST /v1/chat/completions: the handler's pure parts.                    *)
(***************************************************************************)
NoResp == [status |-> 0, ctype |-> "", kind |-> "none", doc |-> BadDoc({}), error |-> ""]

\* jsonify({"error": str(e)}), 500
Error500(msg) ==
    [status |-> 500, ctype |-> "application/json", kind |-> "error",
     doc |-> BadDoc({}), error |-> msg]

\* jsonify(doc), status   /   return doc, status
JsonResponse(doc, status) ==
    [status |-> status, ctype |-> "application/json", kind |-> "json",
     doc |-> doc, error |-> ""]

\* Response(generator, status, content_type)
StreamResponse(status, ctype) ==
    [status |-> status, ctype |-> ctype, kind |-> "stream",
     doc |-> BadDoc({}), error |-> ""]

\* stream = body.get('stream', False), as the truth value the handler tests
Stream(b) == b.stream = "true"

\* request.json or body.get raises before anything is sent upstream
BodyRaises(b) == b.kind # "object"

\* f'HTTP {response.status_code} error'
GenericMessage(status) == "HTTP " \o ToString(status) \o " error"

\* response.json() followed by error_data.get('error', {}).get('message', ...)
\* raises when the body is no JSON, no object, or its error is no object
ErrorMessageRaises(doc) ==
    doc.kind # "obj" \/ doc.error.is = "null"

ErrorMessage(doc, status) ==
    IF doc.error.is = "obj" /\ "message" \in doc.error.keys
    THEN doc.message
    ELSE GenericMessage(status)

\* f"Model unavailable: {error_message}"
ErrorContent(msg) == "Model unavailable: " \o msg

\* error_response
ErrorCompletion(msg) ==
    Doc({"created", "id", "model", "object"},
        ObjOf({"completion_tokens", "prompt_tokens", "total_tokens"}),
        ListOf(<<Choice({"finish_reason", "index", "logprobs"}, Absent,
                        ObjOf({"content", "refusal", "role"}), ErrorContent(msg))>>),
        Absent, "")

\* chunk_response
ErrorChunk(msg) ==
    Doc({"created", "id", "model", "object"}, Absent,
        ListOf(<<Choice({"finish_reason", "index", "logprobs"},
                        ObjOf({"content", "role"}), Absent, ErrorContent(msg))>>),
        Absent, "")

\* the error stream without its terminating line
ErrorStreamWithoutDone(msg) == <<DataLine("dumps", ErrorChunk(msg))>>

\* generate_error_stream(): the two lines it yields
ErrorStream(msg) == <<DataLine("dumps", ErrorChunk(msg)), DoneLine>>

\* response.raise_for_status() raises for 4xx and 5xx
RaiseForStatus(status) == status >= 400

\* str(e) of the HTTPError it raises
StatusErrorText(status) == ToString(status) \o " Error"

\* the streaming clean-up raises (AttributeError, TypeError: not caught by
\* except (json.JSONDecodeError, KeyError)) when the chunk, its usage, its
\* choices or a delta is present but is not an object / a list
StripChunkRaises(d) ==
    \/ d.kind # "obj"
    \/ d.usage.is = "null"
    \/ d.choices.is = "null"
    \/ \E i \in 1..Len(d.choices.items) : d.choices.items[i].delta.is = "null"

\* a clean-up of the delta that forgets reasoning_details
StripDeltaKeepingDetails(c) ==
    [c EXCEPT !.keys = @ \ {"native_finish_reason"},
              !.delta.keys = @ \ {"reasoning"}]

StripDelta(c) ==
    [c EXCEPT !.keys = @ \ {"native_finish_reason"},
              !.delta.keys = @ \ {"reasoning", "reasoning_details"}]

StripChunk(d) ==
    [d EXCEPT !.top = @ \ {"provider"},
              !.usage.keys = @ \ {"prompt_tokens_details"},
              !.choices.items = [i \in 1..Len(@) |-> StripDelta(@[i])]]

\* one turn of the loop of generate(): what is yielded for a line, and
\* whether the generator dies
RelayOne(l) ==
    IF l.form = "blank" \/ l.marker
    THEN [emit |-> <<>>, abort |-> FALSE]
    ELSE IF l.form = "data"
    THEN IF l.doc.kind = "bad"
         THEN [emit |-> <<l>>, abort |-> FALSE]
         ELSE IF StripChunkRaises(l.doc)
         THEN [emit |-> <<>>, abort |-> TRUE]
         ELSE [emit |-> <<Line("data", "dumps", FALSE, StripChunk(l.doc))>>,
               abort |-> FALSE]
    ELSE [emit |-> <<l>>, abort |-> FALSE]

\* the non-streaming clean-up raises on the same shapes, with message for delta
ReshapeRaises(d) ==
    \/ d.kind # "obj"
    \/ d.usage.is = "null"
    \/ d.choices.is = "null"
    \/ \E i \in 1..Len(d.choices.items) : d.choices.items[i].message.is = "null"

StripMessage(c) ==
    [c EXCEPT !.keys = @ \ {"native_finish_reason"},
              !.message.keys = @ \ {"reasoning", "reasoning_details"}]

Reshape(d) ==
    [d EXCEPT !.top = @ \ {"provider"},
              !.usage.keys = @ \ {"prompt_tokens_details"},
              !.choices.items = [i \in 1..Len(@) |-> StripMessage(@[i])]]

(***************************************************************************)
(* POST /v1/chat/completions: the handler, step by step.                   *)
(*   pc: "idle" -> "posting" -> "answered" -> "checked" -> "relaying"      *)
(*       -> "done" (a complete response), "aborted" (a stream cut short    *)
(*       after its headers) or "hung" (blocked on the upstream for ever)   *)
(***************************************************************************)
Finish(r, f) ==
    /\ resp' = r
    /\ fault' = f
    /\ pc' = "done"

\* body = request.json ... requests.post(url, ..., stream=stream) is issued
ReceiveRequest(b) ==
    /\ pc = "idle"
    /\ body' = b
    /\ IF BodyRaises(b)
       THEN /\ Finish(Error500("bad request body"), "local")
            /\ UNCHANGED upstreamCalls
       ELSE /\ pc' = "posting"
            /\ upstreamCalls' = upstreamCalls + 1
            /\ UNCHANGED <<resp, fault>>
    /\ UNCHANGED <<upStatus, upCtype, upLines, upEnd, cached, cursor, sent>>
    /\ UNCHANGED modelVars

\* a handler that sends the request again when the transport fails
PostRaisesAndRetries ==
    /\ pc = "posting"
    /\ upstreamCalls < 2
    /\ upstreamCalls' = upstreamCalls + 1
    /\ UNCHANGED <<pc, body, upStatus, upCtype, upLines, upEnd, cached, cursor, resp,
                   sent, fault>>
    /\ UNCHANGED modelVars

\* requests.post raises: no connection, a connection lost before the answer
\* (for a non-streaming request: before the end of the body)
PostRaises ==
    /\ pc = "posting"
    /\ Finish(Error500("transport error"), "transport")
    /\ UNCHANGED <<body, upstreamCalls, upStatus, upCtype, upLines, upEnd, cached,
                   cursor, sent>>
    /\ UNCHANGED modelVars

\* requests.post never returns: it is called without a timeout
PostHangs ==
    /\ pc = "posting"
    /\ pc' = "hung"
    /\ fault' = "hang"
    /\ UNCHANGED <<body, upstreamCalls, upStatus, upCtype, upLines, upEnd, cached,
                   cursor, resp, sent>>
    /\ UNCHANGED modelVars

\* requests.post returns: with stream=True after the headers, otherwise with
\* the whole body read
PostReturns(st, ct, lines) ==
    /\ pc = "posting"
    /\ upStatus' = st
    /\ upCtype' = ct
    /\ IF Stream(body)
       THEN /\ lines = <<>>
            /\ UNCHANGED <<upLines, upEnd, cached>>
       ELSE /\ upLines' = lines
            /\ upEnd' = "eof"
            /\ cached' = TRUE
    /\ pc' = "answered"
    /\ UNCHANGED <<body, upstreamCalls, cursor, resp, sent, fault>>
    /\ UNCHANGED modelVars

\* if response.status_code != 200: not taken
StatusOk ==
    /\ pc = "answered"
    /\ upStatus = 200
    /\ pc' = "checked"
    /\ UNCHANGED <<body, upstreamCalls, upStatus, upCtype, upLines, upEnd, cached,
                   cursor, resp, sent, fault>>
    /\ UNCHANGED modelVars

\* response.json() of a streamed response reads the body, which may break off
ReadErrorBody(lines, end) ==
    /\ pc = "answered"
    /\ upStatus # 200
    /\ ~cached
    /\ upLines' = IF end = "eof" THEN lines ELSE <<>>
    /\ upEnd' = end
    /\ cached' = TRUE
    /\ UNCHANGED <<pc, body, upstreamCalls, upStatus, upCtype, cursor, resp, sent,
                   fault>>
    /\ UNCHANGED modelVars

\* ... or never ends
ReadErrorBodyHangs ==
    /\ pc = "answered"
    /\ upStatus # 200
    /\ ~cached
    /\ pc' = "hung"
    /\ fault' = "hang"
    /\ UNCHANGED <<body, upstreamCalls, upStatus, upCtype, upLines, upEnd, cached,
                   cursor, resp, sent>>
    /\ UNCHANGED modelVars

\* the try block under status_code != 200 runs to its return
SynthesizeError ==
    /\ pc = "answered"
    /\ upStatus # 200
    /\ cached
    /\ upEnd = "eof"
    /\ ~ErrorMessageRaises(ParseJson(upLines))
    /\ LET msg == ErrorMessage(ParseJson(upLines), upStatus) IN
       IF Stream(body)
       THEN /\ Finish(StreamResponse(200, "text/event-stream"), "none")
            /\ sent' = ErrorStream(msg)
       ELSE /\ Finish(JsonResponse(ErrorCompletion(msg), 200), "none")
            /\ UNCHANGED sent
    /\ UNCHANGED <<body, upstreamCalls, upStatus, upCtype, upLines, upEnd, cached,
                   cursor>>
    /\ UNCHANGED modelVars

\* the try block raises: except: pass, then response.raise_for_status()
ErrorFallback ==
    /\ pc = "answered"
    /\ upStatus # 200
    /\ cached
    /\ upEnd = "error" \/ ErrorMessageRaises(ParseJson(upLines))
    /\ IF RaiseForStatus(upStatus)
       THEN Finish(Error500(StatusErrorText(upStatus)),
                   IF upEnd = "error" THEN "transport" ELSE "none")
       ELSE /\ pc' = "checked"
            /\ UNCHANGED <<resp, fault>>
    /\ UNCHANGED <<body, upstreamCalls, upStatus, upCtype, upLines, upEnd, cached,
                   cursor, sent>>
    /\ UNCHANGED modelVars

\* the upstream's Content-Type, or the default of headers.get
RelayContentType(ct) == IF ct = "" THEN "text/event-stream" ELSE ct

\* if stream: return Response(stream_with_context(generate()), ...)
StartRelay ==
    /\ pc = "checked"
    /\ Stream(body)
    /\ resp' = StreamResponse(upStatus, RelayContentType(upCtype))
    /\ cursor' = 1
    /\ pc' = "relaying"
    /\ UNCHANGED <<body, upstreamCalls, upStatus, upCtype, upLines, upEnd, cached,
                   sent, fault>>
    /\ UNCHANGED modelVars

\* else: openrouter_response = response.json() ... return it with the status
RespondJson ==
    /\ pc = "checked"
    /\ ~Stream(body)
    /\ LET doc == ParseJson(upLines) IN
       IF ReshapeRaises(doc)
       THEN Finish(Error500("bad upstream body"), "content")
       ELSE Finish(JsonResponse(Reshape(doc), upStatus), "none")
    /\ UNCHANGED <<body, upstreamCalls, upStatus, upCtype, upLines, upEnd, cached,
                   cursor, sent>>
    /\ UNCHANGED modelVars

Relayed(l) ==
    /\ sent' = sent \o RelayOne(l).emit
    /\ IF RelayOne(l).abort
       THEN pc' = "aborted" /\ fault' = "content"
       ELSE UNCHANGED <<pc, fault>>

\* generate(): iter_lines yields the next line of the live stream
RelayLive(l) ==
    /\ pc = "relaying"
    /\ ~cached
    /\ Len(upLines) < MaxLines
    /\ upLines' = Append(upLines, l)
    /\ Relayed(l)
    /\ UNCHANGED <<body, upstreamCalls, upStatus, upCtype, upEnd, cached, cursor,
                   resp>>
    /\ UNCHANGED modelVars

\* generate(): iter_lines yields the next line of a body already read
RelayCached ==
    /\ pc = "relaying"
    /\ cached
    /\ cursor <= Len(upLines)
    /\ cursor' = cursor + 1
    /\ Relayed(upLines[cursor])
    /\ UNCHANGED <<body, upstreamCalls, upStatus, upCtype, upLines, upEnd, cached,
                   resp>>
    /\ UNCHANGED modelVars

\* generate(): iter_lines is exhausted
RelayEnd ==
    /\ pc = "relaying"
    /\ IF cached THEN cursor > Len(upLines) /\ upEnd = "eof" ELSE TRUE
    /\ upEnd' = "eof"
    /\ pc' = "done"
    /\ UNCHANGED <<body, upstreamCalls, upStatus, upCtype, upLines, cached, cursor,
                   resp, sent, fault>>
    /\ UNCHANGED modelVars

\* generate(): iter_lines raises; the response has begun, the handler's
\* try/except has long returned
RelayBreaks ==
    /\ pc = "relaying"
    /\ IF cached THEN cursor > Len(upLines) /\ upEnd = "error" ELSE TRUE
    /\ upEnd' = "error"
    /\ pc' = "aborted"
    /\ fault' = "transport_mid"
    /\ UNCHANGED <<body, upstreamCalls, upStatus, upCtype, upLines, cached, cursor,
                   resp, sent>>
    /\ UNCHANGED modelVars

\* generate(): iter_lines blocks for ever (no timeout was given)
RelayHangs ==
    /\ pc = "relaying"
    /\ ~cached
    /\ pc' = "hung"
    /\ fault' = "hang"
    /\ UNCHANGED <<body, upstreamCalls, upStatus, upCtype, upLines, upEnd, cached,
                   cursor, resp, sent>>
    /\ UNCHANGED modelVars

(***************************************************************************)
(* GET /v1/models: strings are sequences of characters.                    *)
(***************************************************************************)
IsSpace(c) == c \in {" ", "\n", "\t"}

\* str.strip()
RECURSIVE LStrip(_)
LStrip(s) == IF s # <<>> /\ IsSpace(Head(s)) THEN LStrip(Tail(s)) ELSE s
RECURSIVE RStrip(_)
RStrip(s) ==
    IF s # <<>> /\ IsSpace(s[Len(s)]) THEN RStrip(SubSeq(s, 1, Len(s) - 1)) ELSE s
Strip(s) == RStrip(LStrip(s))

\* str.split("/")[0]
RECURSIVE SplitFirst(_)
SplitFirst(s) ==
    IF s = <<>> \/ Head(s) = "/" THEN <<>> ELSE <<Head(s)>> \o SplitFirst(Tail(s))

\* fnmatch.translate(pattern): '*' becomes '.*' (a run of '*' becomes one),
\* '?' becomes '.', any other character its escaped self; the whole is
\* wrapped as (?s:...)\Z
RECURSIVE Translate(_)
Translate(p) ==
    IF p = <<>> THEN <<>>
    ELSE IF Head(p) = "*"
    THEN IF Tail(p) # <<>> /\ Head(Tail(p)) = "*"
         THEN Translate(Tail(p))
         ELSE <<[t |-> "star", c |-> ""]>> \o Translate(Tail(p))
    ELSE IF Head(p) = "?"
    THEN <<[t |-> "any", c |-> ""]>> \o Translate(Tail(p))
    ELSE <<[t |-> "lit", c |-> Head(p)]>> \o Translate(Tail(p))

\* \Z: the pattern is exhausted only at the end of the string
AtEnd(s) == s = <<>>

\* re.match(regex, s): a backtracking match from the start of s
RECURSIVE ReMatch(_, _)
ReMatch(re, s) ==
    IF re = <<>> THEN AtEnd(s)
    ELSE IF Head(re).t = "star"
    THEN \E k \in 0..Len(s) : ReMatch(Tail(re), SubSeq(s, k + 1, Len(s)))
    ELSE IF Head(re).t = "any"
    THEN s # <<>> /\ ReMatch(Tail(re), Tail(s))
    ELSE s # <<>> /\ Head(s) = Head(re).c /\ ReMatch(Tail(re), Tail(s))

\* a filter that takes the lines of the file as plain ids
AllowedExact(id, patterns) == id \in patterns

\* any(re.match(pattern, model["id"]) for pattern in regex_patterns)
Allowed(id, patterns) == \E p \in patterns : ReMatch(Translate(p), id)

\* [model for model in openrouter_data["data"] if any(...)]
RECURSIVE FilterModels(_, _)
FilterModels(ms, patterns) ==
    IF ms = <<>> THEN <<>>
    ELSE IF Allowed(Head(ms).id, patterns)
    THEN <<Head(ms)>> \o FilterModels(Tail(ms), patterns)
    ELSE FilterModels(Tail(ms), patterns)

\* an owner that is empty for an id without '/'
OwnedByEmptyWithoutSlash(id) ==
    IF \E i \in 1..Len(id) : id[i] = "/" THEN SplitFirst(id) ELSE <<>>

\* "owned_by": model["id"].split("/")[0]
OwnedBy(id) == SplitFirst(id)

\* one entry of openai_models["data"]
OpenAIModel(m) ==
    [id |-> m.id, object |-> "model", created |-> m.created, owned_by |-> OwnedBy(m.id)]

\* the filter is applied only to a non-empty set (if allowed_models:)
OpenAIModels(ms, patterns) ==
    LET kept == IF patterns # {} THEN FilterModels(ms, patterns) ELSE ms
    IN  [i \in 1..Len(kept) |-> OpenAIModel(kept[i])]

\* The filter files.  A file is missing, or exists and cannot be opened, or
\* is read line by line; reading may raise after `good` lines were yielded.
MissingFile == [state |-> "missing", lines |-> <<>>, good |-> 0]
LockedFile == [state |-> "locked", lines |-> <<>>, good |-> 0]
ReadableFile(ls) == [state |-> "ok", lines |-> ls, good |-> Len(ls)]
BreakingFile(ls, k) == [state |-> "breaks", lines |-> ls, good |-> k]

\* os.path.exists(path)
Exists(f) == f.state # "missing"

\* filter_path as line 58 sees it ("" stands for no path)
FilterPath(e, d) ==
    IF e = "unset"
    THEN IF Exists(d.default) THEN "filter-models.txt" ELSE ""
    ELSE e

FileAt(path, d) == IF path = "filter-models.txt" THEN d.default ELSE d.custom

\* the loop over the file: the lines yielded before the file ends or breaks
\* are stripped and, when not empty, added; an exception only ends the loop
LinesRead(f) ==
    IF f.state \in {"ok", "breaks"} THEN SubSeq(f.lines, 1, f.good) ELSE <<>>

LoadAllowed(e, d) ==
    LET path == FilterPath(e, d) IN
    IF path = "" THEN {}
    ELSE LET read == LinesRead(FileAt(path, d))
         IN  {Strip(read[i]) : i \in 1..Len(read)} \ {<<>>}

(***************************************************************************)
(* GET /v1/models: the inputs.                                             *)
(***************************************************************************)
\* upstream entries: "m1", "g/p", "g/p/q"
UpstreamEntries ==
    {[id |-> <<"m", "1">>, created |-> 123, pricing |-> "x"],
     [id |-> <<"g", "/", "p">>, created |-> 456, pricing |-> "x"],
     [id |-> <<"g", "/", "p", "/", "q">>, created |-> 789, pricing |-> "x"]}

\* what the upstream answers to GET /api/v1/models
GetStatuses == {200, 404}

\* lines of a filter file: " m1\n", "g/*\n", "g/?\n", "g/\n", " \n"
FileLines ==
    {<<" ", "m", "1", "\n">>, <<"g", "/", "*", "\n">>, <<"g", "/", "?", "\n">>,
     <<"g", "/", "\n">>, <<" ", "\n">>}

SeqsUpTo(S, n) == UNION {[1..k -> S] : k \in 0..n}

ModelLists == SeqsUpTo(UpstreamEntries, MaxModels)

FileContents == SeqsUpTo(FileLines, MaxFileLines)

Files ==
    {MissingFile, LockedFile}
    \cup {ReadableFile(ls) : ls \in FileContents}
    \cup UNION {{BreakingFile(ls, k) : k \in 0..(Len(ls) - 1)} : ls \in FileContents}

SampleFile == ReadableFile(<<<<"g", "/", "*", "\n">>>>)

\* the environment of the process: MODEL_FILTER_FILE and the two files
Environments ==
    {[env |-> "unset", disk |-> [default |-> f, custom |-> MissingFile]] : f \in Files}
    \cup {[env |-> "", disk |-> [default |-> f, custom |-> MissingFile]] :
             f \in {MissingFile, SampleFile}}
    \cup {[env |-> "custom-filters.txt", disk |-> [default |-> g, custom |-> f]] :
             f \in Files, g \in {MissingFile, SampleFile}}

(***************************************************************************)
(* GET /v1/models: the handler, step by step.                              *)
(*   pc: "idle" -> "getting" -> "fetched" -> "loaded" -> "done"            *)
(***************************************************************************)
ModelsResponse ==
    [status |-> 200, ctype |-> "application/json", kind |-> "models",
     doc |-> BadDoc({}), error |-> ""]

\* requests.get(url, headers=headers, verify=verify_ssl) is issued
ReceiveGet ==
    /\ pc = "idle"
    /\ pc' = "getting"
    /\ upstreamCalls' = upstreamCalls + 1
    /\ UNCHANGED <<upStatus, resp, fault>>
    /\ UNCHANGED chatVars
    /\ UNCHANGED modelVars

\* requests.get raises
GetRaises ==
    /\ pc = "getting"
    /\ Finish(Error500("transport error"), "transport")
    /\ UNCHANGED <<upstreamCalls, upStatus>>
    /\ UNCHANGED chatVars
    /\ UNCHANGED modelVars

\* requests.get never returns: it is called without a timeout
GetHangs ==
    /\ pc = "getting"
    /\ pc' = "hung"
    /\ fault' = "hang"
    /\ UNCHANGED <<upstreamCalls, upStatus, resp>>
    /\ UNCHANGED chatVars
    /\ UNCHANGED modelVars

\* response.raise_for_status(); openrouter_data = response.json()
GetReturns(st, parses, ms) ==
    /\ pc = "getting"
    /\ upStatus' = st
    /\ IF RaiseForStatus(st)
       THEN /\ Finish(Error500(StatusErrorText(st)), "none")
            /\ UNCHANGED models
       ELSE IF ~parses
       THEN /\ Finish(Error500("bad upstream body"), "content")
            /\ UNCHANGED models
       ELSE /\ models' = ms
            /\ pc' = "fetched"
            /\ UNCHANGED <<resp, fault>>
    /\ UNCHANGED <<upstreamCalls, env, disk, allowed_models, listed>>
    /\ UNCHANGED chatVars

\* lines 49-72: the filter file is resolved and read
LoadFilter ==
    /\ pc = "fetched"
    /\ allowed_models' = LoadAllowed(env, disk)
    /\ pc' = "loaded"
    /\ UNCHANGED <<upstreamCalls, upStatus, resp, fault, models, env, disk, listed>>
    /\ UNCHANGED chatVars

\* lines 74-97: the list is filtered, mapped and returned
ListModels ==
    /\ pc = "loaded"
    /\ listed' = OpenAIModels(models, allowed_models)
    /\ Finish(ModelsResponse, "none")
    /\ UNCHANGED <<upstreamCalls, upStatus, models, env, disk, allowed_models>>
    /\ UNCHANGED chatVars

InitModels ==
    /\ pc = "idle"
    /\ body = [kind |-> "missing", stream |-> "absent"]
    /\ upstreamCalls = 0
    /\ upStatus = 0
    /\ upCtype = ""
    /\ upLines = <<>>
    /\ upEnd = "open"
    /\ cached = FALSE
    /\ cursor = 0
    /\ resp = NoResp
    /\ sent = <<>>
    /\ fault = "none"
    /\ models = <<>>
    /\ \E e \in Environments : env = e.env /\ disk = e.disk
    /\ allowed_models = {}
    /\ listed = <<>>

NextModels ==
    \/ ReceiveGet
    \/ GetRaises
    \/ GetHangs
    \/ \E st \in GetStatuses, parses \in BOOLEAN, ms \in ModelLists :
          GetReturns(st, parses, IF parses /\ ~RaiseForStatus(st) THEN ms ELSE <<>>)
    \/ LoadFilter
    \/ ListModels

SpecModels == InitModels /\ [][NextModels]_vars

(***************************************************************************)
(* The specifications.                                                     *)
(***************************************************************************)
InitChat ==
    /\ pc = "idle"
    /\ body = [kind |-> "missing", stream |-> "absent"]
    /\ upstreamCalls = 0
    /\ upStatus = 0
    /\ upCtype = ""
    /\ upLines = <<>>
    /\ upEnd = "open"
    /\ cached = FALSE
    /\ cursor = 0
    /\ resp = NoResp
    /\ sent = <<>>
    /\ fault = "none"
    /\ models = <<>>
    /\ env = "unset"
    /\ disk = [default |-> MissingFile, custom |-> MissingFile]
    /\ allowed_models = {}
    /\ listed = <<>>

Next ==
    \/ \E b \in RequestBodies : ReceiveRequest(b)
    \/ PostRaises
    \/ PostHangs
    \/ \E st \in Statuses, ct \in ContentTypes, lines \in Bodies :
          PostReturns(st, ct, lines)
    \/ StatusOk
    \/ \E lines \in Bodies, end \in {"eof", "error"} : ReadErrorBody(lines, end)
    \/ ReadErrorBodyHangs
    \/ SynthesizeError
    \/ ErrorFallback
    \/ StartRelay
    \/ RespondJson
    \/ \E l \in StreamLines : RelayLive(l)
    \/ RelayCached
    \/ RelayEnd
    \/ RelayBreaks
    \/ RelayHangs

Spec == InitChat /\ [][Next]_vars

\* The server runs the handler and the generator on: a step that can be
\* taken is taken in the end.  The upstream's steps are among them, and one
\* of them is to fall silent (PostHangs, ReadErrorBodyHangs, RelayHangs),
\* after which no step of the handler is enabled: no timeout is ever set.
LiveSpec == InitChat /\ [][Next]_vars /\ WF_vars(Next)

(***************************************************************************)
(* Properties of GET /v1/models (checked under SpecModels).                *)
(***************************************************************************)
Chars(s) == {s[i] : i \in 1..Len(s)}

\* The glob semantics of the specification, read forwards: the positions of
\* s that can be reached after each character of the pattern ('*' any run of
\* characters, '?' one character, anything else itself).
GlobStep(c, s, R) ==
    IF c = "*" THEN {j \in 0..Len(s) : \E i \in R : i <= j}
    ELSE IF c = "?" THEN {i + 1 : i \in {r \in R : r < Len(s)}}
    ELSE {i + 1 : i \in {r \in R : r < Len(s) /\ s[r + 1] = c}}
RECURSIVE GlobReach(_, _, _)
GlobReach(p, s, R) ==
    IF p = <<>> THEN R ELSE GlobReach(Tail(p), s, GlobStep(Head(p), s, R))
WholeMatch(p, s) == Len(s) \in GlobReach(p, s, {0})

ModelsListed == pc = "done" /\ resp.kind = "models"

\* C4: GET /v1/models returns every upstream entry when the filter list is
\* empty, and otherwise exactly the entries whose id some pattern of the list
\* matches as a whole string, in upstream order, none duplicated or added.
C4_FilterKeepsExactlyMatches ==
    ModelsListed =>
        LET Keep(m) == \E p \in allowed_models : WholeMatch(p, m.id)
            expected == IF allowed_models = {} THEN models
                        ELSE SelectSeq(models, Keep)
        IN  /\ Len(listed) = Len(expected)
            /\ \A i \in 1..Len(listed) :
                  /\ listed[i].id = expected[i].id
                  /\ listed[i].created = expected[i].created

\* C4 witness: a wildcard pattern kept one upstream entry and dropped another.
C4_Witness ==
    /\ ModelsListed
    /\ \E p \in allowed_models : "*" \in Chars(p)
    /\ Len(listed) >= 1
    /\ Len(listed) < Len(models)

\* the owner the amended C5 names: the part of id before its first '/', and
\* the whole id when it has none
IsOwnerPrefix(o, id) ==
    /\ "/" \notin Chars(o)
    /\ Len(o) <= Len(id)
    /\ SubSeq(id, 1, Len(o)) = o
    /\ Len(o) < Len(id) => id[Len(o) + 1] = "/"

CopiedFromUpstream(e) ==
    /\ e.object = "model"
    /\ \E j \in 1..Len(models) : models[j].id = e.id /\ models[j].created = e.created

\* C5 as stated: owned_by is the part of id before its first '/', and the
\* empty string when id has no '/'; id and created are copied, object is "model".
C5_OwnedByEmptyWithoutSlash ==
    ModelsListed =>
        \A i \in 1..Len(listed) :
            /\ CopiedFromUpstream(listed[i])
            /\ IF "/" \in Chars(listed[i].id)
               THEN IsOwnerPrefix(listed[i].owned_by, listed[i].id)
               ELSE listed[i].owned_by = <<>>

\* C5 amended: owned_by is the part of id before its first '/', and the whole
\* id when id has no '/'; id and created are copied, object is "model".
C5_OwnedByPrefixOrWholeId ==
    ModelsListed =>
        \A i \in 1..Len(listed) :
            /\ CopiedFromUpstream(listed[i])
            /\ IsOwnerPrefix(listed[i].owned_by, listed[i].id)

\* C5 witness: an entry without '/' and an entry with two of them are listed.
C5_Witness ==
    /\ ModelsListed
    /\ \E i \in 1..Len(listed) :
          "/" \notin Chars(listed[i].id) /\ listed[i].owned_by = listed[i].id
    /\ \E i \in 1..Len(listed) :
          listed[i].id = <<"g", "/", "p", "/", "q">> /\ listed[i].owned_by = <<"g">>

\* the filter list C6 describes
ChosenFile(e, d) ==
    IF e # "unset" THEN FileAt(e, d)
    ELSE IF Exists(d.default) THEN d.default
    ELSE MissingFile
ClaimedFilter(e, d) ==
    LET f == ChosenFile(e, d) IN
    IF f.state = "ok"
    THEN {Strip(f.lines[i]) : i \in 1..Len(f.lines)} \ {<<>>}
    ELSE {}

\* C6: the filter list is the non-blank lines of the configured file, else of
\* the default file when it exists, else empty; it is empty whenever the
\* chosen file is missing, unreadable or fails while being read, and the
\* request then still succeeds with 200.
C6_FilterFailsOpen ==
    ModelsListed =>
        LET claimed == ClaimedFilter(env, disk)
            Keep(m) == \E p \in claimed : WholeMatch(p, m.id)
            expected == IF claimed = {} THEN models ELSE SelectSeq(models, Keep)
        IN  /\ resp.status = 200
            /\ Len(listed) = Len(expected)
            /\ \A i \in 1..Len(listed) : listed[i].id = expected[i].id

(***************************************************************************)
(* Properties of POST /v1/chat/completions (checked under Spec, C7 under   *)
(* LiveSpec).                                                              *)
(***************************************************************************)
\* a response that carries a completion: a JSON body or a line stream
DeliversCompletion == resp.kind \in {"json", "stream"}

\* the handler has returned its response
Responding == pc \in {"relaying", "done", "aborted"}

\* the synthesized error completion: the only 200 given for another status
Synthesized == DeliversCompletion /\ upStatus # 200 /\ resp.status = 200

\* the assistant content of the one choice of a payload ("" when there is none)
ContentOf(d) ==
    IF d.kind = "obj" /\ Len(d.choices.items) = 1 THEN d.choices.items[1].content ELSE ""
DeliveredContent ==
    IF resp.kind = "json" THEN ContentOf(resp.doc)
    ELSE IF resp.kind = "stream" /\ Len(sent) >= 1 THEN ContentOf(sent[1].doc)
    ELSE ""

\* the message C1 names: error.message when present, else the generic one
ClaimedMessage(d, status) ==
    IF d.kind = "obj" /\ "message" \in d.error.keys
    THEN d.message
    ELSE "HTTP " \o ToString(status) \o " error"

\* C1: an upstream 4xx or 5xx, whatever its body (JSON with error.message,
\* JSON without, JSON whose error is no object, no JSON), reaches the caller
\* as HTTP 200 with a completion whose content is "Model unavailable: <message>".
C1_UpstreamErrorIsAlways200 ==
    (pc = "done" /\ upStatus >= 400 /\ upEnd = "eof") =>
        /\ resp.status = 200
        /\ DeliversCompletion
        /\ DeliveredContent =
              "Model unavailable: " \o ClaimedMessage(ParseJson(upLines), upStatus)

\* exactly one data chunk in delta form with the error content, then [DONE]
IsErrorStream(ls) ==
    /\ Len(ls) = 2
    /\ ls[1].form = "data"
    /\ ls[1].doc.kind = "obj"
    /\ Len(ls[1].doc.choices.items) = 1
    /\ ls[1].doc.choices.items[1].delta.is = "obj"
    /\ "content" \in ls[1].doc.choices.items[1].delta.keys
    /\ ContentOf(ls[1].doc) =
          "Model unavailable: " \o ClaimedMessage(ParseJson(upLines), upStatus)
    /\ ls[2] = DoneLine

\* C2 as stated: whenever a completion is delivered, a request with
\* stream true gets a text/event-stream (a synthesized error being exactly
\* one data chunk and one [DONE]), any other request one JSON object.
C2_ModeAlwaysHonored ==
    (Responding /\ DeliversCompletion) =>
        IF Stream(body)
        THEN /\ resp.kind = "stream"
             /\ resp.ctype = "text/event-stream"
             /\ Synthesized => IsErrorStream(sent)
        ELSE /\ resp.kind = "json"
             /\ resp.ctype = "application/json"
             /\ resp.doc.kind = "obj"
             /\ sent = <<>>

\* C2 amended: as C2, except that a relayed stream carries the upstream's
\* Content-Type, which is text/event-stream only when the upstream sent that
\* or sent none.
C2_ModeHonoredWithUpstreamContentType ==
    (Responding /\ DeliversCompletion) =>
        IF Stream(body)
        THEN /\ resp.kind = "stream"
             /\ IF Synthesized
                THEN resp.ctype = "text/event-stream" /\ IsErrorStream(sent)
                ELSE /\ upCtype # "" => resp.ctype = upCtype
                     /\ upCtype = "" => resp.ctype = "text/event-stream"
        ELSE /\ resp.kind = "json"
             /\ resp.ctype = "application/json"
             /\ resp.doc.kind = "obj"
             /\ sent = <<>>

\* C2 witness: a streaming request whose upstream error was synthesized.
C2_Witness ==
    /\ pc = "done"
    /\ Stream(body)
    /\ Synthesized
    /\ upStatus = 402
    /\ Len(sent) = 2

\* C3 as stated: no body and no streamed line delivered to the caller
\* contains a denylisted field, wherever the upstream put it, lines passed
\* through unparsed included.
C3_NoDenylistedFieldAnywhere ==
    /\ resp.kind = "json" => FieldsIn(resp.doc) \cap Denylist = {}
    /\ \A i \in 1..Len(sent) : FieldsIn(sent[i].doc) \cap Denylist = {}

\* the places the handlers clean
CleanAt(d, part) ==
    /\ "provider" \notin d.top
    /\ "prompt_tokens_details" \notin d.usage.keys
    /\ \A i \in 1..Len(d.choices.items) :
          /\ "native_finish_reason" \notin d.choices.items[i].keys
          /\ LET o == IF part = "delta" THEN d.choices.items[i].delta
                      ELSE d.choices.items[i].message
             IN  o.keys \cap {"reasoning", "reasoning_details"} = {}

\* C3 amended: a JSON body returned and a data chunk re-serialized by the
\* relay hold no provider at the top level, no usage.prompt_tokens_details,
\* no choices[].native_finish_reason and no reasoning or reasoning_details in
\* choices[].message (body) or choices[].delta (chunk); a synthesized error
\* payload holds no denylisted field at all.  (Lines relayed unparsed and
\* fields at other places are sent as they came.)
C3_DenylistedFieldsStrippedWhereParsed ==
    /\ resp.kind = "json" => CleanAt(resp.doc, "message")
    /\ \A i \in 1..Len(sent) :
          (sent[i].form = "data" /\ sent[i].doc.kind = "obj") =>
              CleanAt(sent[i].doc, "delta")
    /\ Synthesized =>
          /\ resp.kind = "json" => FieldsIn(resp.doc) \cap Denylist = {}
          /\ \A i \in 1..Len(sent) : FieldsIn(sent[i].doc) \cap Denylist = {}

\* C3 witness: a chunk that came with every denylisted field was relayed.
C3_Witness ==
    /\ pc = "relaying"
    /\ Len(upLines) = 1
    /\ Denylist \subseteq FieldsIn(upLines[1].doc)
    /\ upLines[1].form = "data"
    /\ Len(sent) = 1

\* the lines C8 expects for the upstream lines consumed so far
RECURSIVE ClaimedRelay(_)
ClaimedRelay(ls) ==
    IF ls = <<>> THEN <<>>
    ELSE LET l == Head(ls) IN
         (IF l.marker THEN <<>>
          ELSE IF l.form = "data" /\ l.doc.kind # "bad"
          THEN <<Line("data", "dumps", FALSE,
                      IF l.doc.kind = "obj" THEN StripChunk(l.doc) ELSE l.doc)>>
          ELSE <<l>>)
         \o ClaimedRelay(Tail(ls))

Consumed == IF cached THEN SubSeq(upLines, 1, cursor - 1) ELSE upLines

\* C8: on the streaming success path the lines sent are the upstream lines
\* without those holding the keep-alive marker, each other line mapped one to
\* one and in order: a data line that parses re-serialized without the
\* denylisted fields, every other line (blank lines and [DONE] included, and
\* data lines that do not parse) unmodified; no line stops the relay.
C8_RelayIsLineForLine ==
    (pc \in {"relaying", "done", "aborted"} /\ resp.kind = "stream" /\ ~Synthesized) =>
        /\ sent = ClaimedRelay(Consumed)
        /\ fault # "content"

\* the parts of a body the clean-up reads are objects and lists
WellFormed(d) ==
    /\ d.kind = "obj"
    /\ d.usage.is # "null"
    /\ d.choices.is # "null"
    /\ \A i \in 1..Len(d.choices.items) :
          d.choices.items[i].message.is # "null" /\ d.choices.items[i].delta.is # "null"

SameApartFromDenylist(out, in) ==
    /\ out.kind = in.kind
    /\ out.top \ Denylist = in.top \ Denylist
    /\ out.usage.is = in.usage.is
    /\ out.usage.keys \ Denylist = in.usage.keys \ Denylist
    /\ out.choices.is = in.choices.is
    /\ Len(out.choices.items) = Len(in.choices.items)
    /\ \A i \in 1..Len(out.choices.items) :
          /\ out.choices.items[i].keys \ Denylist = in.choices.items[i].keys \ Denylist
          /\ out.choices.items[i].message.keys \ Denylist
                = in.choices.items[i].message.keys \ Denylist
          /\ out.choices.items[i].content = in.choices.items[i].content

\* C9: a non-streaming request whose upstream answers any 2xx status with a
\* JSON body gets that body, less the denylisted fields, with the upstream's
\* status; the error synthesis is taken for non-2xx statuses only.
C9_Any2xxIsSuccess ==
    (/\ pc = "done"
     /\ body.kind = "object"
     /\ ~Stream(body)
     /\ upStatus \in 200..299
     /\ WellFormed(ParseJson(upLines))) =>
        /\ resp.kind = "json"
        /\ resp.status = upStatus
        /\ SameApartFromDenylist(resp.doc, ParseJson(upLines))

Ended == pc \in {"done", "aborted"}

\* C10 as stated: every failure that is no upstream status (a transport
\* error before the answer or during the relay, a missing or non-object
\* request body) ends in HTTP 500 with {error: message}, and at most one
\* upstream request was made.
C10_EveryFailureIs500 ==
    (Ended /\ fault \in {"local", "transport", "transport_mid"}) =>
        /\ resp.status = 500
        /\ resp.kind = "error"
        /\ resp.error # ""
        /\ upstreamCalls <= 1

\* C10 amended: a transport error before the upstream's answer (or while its
\* error body is read) and a missing or non-object request body end in
\* HTTP 500 with {error: message}; a transport error during the relay cuts
\* short the stream already begun with the upstream's status, and no 500
\* follows; in every case at most one upstream request was made, and none
\* for a bad request body.
C10_FailureIs500UnlessStreamBegun ==
    /\ (Ended /\ fault \in {"local", "transport"}) =>
          /\ resp.status = 500
          /\ resp.kind = "error"
          /\ resp.error # ""
    /\ (Ended /\ fault = "transport_mid") =>
          /\ pc = "aborted"
          /\ resp.kind = "stream"
          /\ resp.status = upStatus
    /\ upstreamCalls <= 1
    /\ fault = "local" => upstreamCalls = 0

\* C10 witness: the upstream broke off after a line had been relayed.
C10_Witness ==
    /\ pc = "aborted"
    /\ fault = "transport_mid"
    /\ Len(sent) = 1
    /\ upstreamCalls = 1

\* C7: every inbound request reaches a terminal response, also when the
\* upstream never answers or stops sending: the wait on it is bounded.
C7_EveryRequestEnds == (pc = "posting") ~> Ended

====
